---- MODULE Spec2Model ----
(***************************************************************************)
(* webkitten core: the engine that turns command-bar text into a script    *)
(* run (src/src/lib.rs) and the derived accessors of BrowserConfiguration  *)
(* (src/src/ui.rs).  Strings are sequences of one-character strings.       *)
(* The modules command, config, script and optparse are not part of the    *)
(* sources at hand; what the engine needs of them follows the design       *)
(* document (sections 4.1 - 4.3).                                          *)
(***************************************************************************)
EXTENDS Integers, Sequences, FiniteSets, TLC

VARIABLES
    pc,            \* position of the single dispatch thread
    config,        \* Engine.config: the configuration document held
    run_config,    \* Engine.run_config: fixed at construction
    disk,          \* configuration files: path -> content
    files,         \* script files that exist (rendered paths)
    unreadable,    \* script files that exist and cannot be opened
    commandField,  \* ApplicationUI: command-bar text of each window
    frame,         \* the execute_command activation being run
    last           \* what the last finished operation was given and returned

vars == <<pc, config, run_config, disk, files, unreadable, commandField, frame, last>>

-----------------------------------------------------------------------------
(* Bounds *)

\* longest text typed into the command bar / longest name looked up
MaxLen == 3
\* number of windows
MaxWindows == 2

-----------------------------------------------------------------------------
(* Strings *)

\* the characters typed into the command bar, and those of a name looked up
Char == {"o", "x", " "}
NameChar == {"o", "x", "."}

RECURSIVE StrUpTo(_, _)
StrUpTo(chars, n) ==
    IF n = 0 THEN {<<>>}
    ELSE LET shorter == StrUpTo(chars, n - 1)
         IN  shorter \cup {Append(s, c) : s \in {t \in shorter : Len(t) = n - 1}, c \in chars}

Texts == StrUpTo(Char, MaxLen)
Names == StrUpTo(NameChar, MaxLen)

Windows == 0 .. (MaxWindows - 1)

\* Option<T>
None == [some |-> FALSE]
Some(v) == [some |-> TRUE, v |-> v]

\* str::starts_with
StartsWith(text, prefix) ==
    /\ Len(prefix) <= Len(text)
    /\ SubSeq(text, 1, Len(prefix)) = prefix

\* position of the first blank of a text, 0 when it has none
RECURSIVE FirstBlank(_, _)
FirstBlank(text, i) ==
    IF i > Len(text) THEN 0
    ELSE IF text[i] = " " THEN i
    ELSE FirstBlank(text, i + 1)

\* the text before the first blank
NameOf(text) ==
    LET b == FirstBlank(text, 1)
    IN  IF b = 0 THEN text ELSE SubSeq(text, 1, b - 1)

\* the text after the first blank, verbatim
RestOf(text) ==
    LET b == FirstBlank(text, 1)
    IN  IF b = 0 THEN <<>> ELSE SubSeq(text, b + 1, Len(text))

\* a dotted key cut into its segments
RECURSIVE SplitDots(_)
SplitDots(s) ==
    LET dots == {i \in 1 .. Len(s) : s[i] = "."}
    IN  IF dots = {} THEN <<s>>
        ELSE LET d == CHOOSE i \in dots : \A j \in dots : i <= j
             IN  <<SubSeq(s, 1, d - 1)>> \o SplitDots(SubSeq(s, d + 1, Len(s)))

-----------------------------------------------------------------------------
(* The configuration document: a tree of named values *)

Absent == [k |-> "absent"]
VStr(s) == [k |-> "str", s |-> s]
VBool(b) == [k |-> "bool", b |-> b]
VList(l) == [k |-> "list", l |-> l]
VTable(t) == [k |-> "table", t |-> t]

\* the table holding the pairs <<key, value>> whose value is present
Tbl(pairs) ==
    LET kept == {p \in pairs : p[2] # Absent}
    IN  VTable([key \in {p[1] : p \in kept} |-> (CHOOSE p \in kept : p[1] = key)[2]])

\* the placeholder that stands for general.config-dir inside a string value
Placeholder == "$"

\* Config::lookup: traversal by segments, absent on a missing segment
RECURSIVE lookup(_, _)
lookup(value, path) ==
    IF path = <<>> THEN value
    ELSE IF value.k = "table" /\ Head(path) \in DOMAIN value.t
         THEN lookup(value.t[Head(path)], Tail(path))
         ELSE Absent

lookup_raw_str(doc, key) ==
    LET v == lookup(doc, key)
    IN  IF v.k = "str" THEN Some(v.s) ELSE None

lookup_bool(doc, key) ==
    LET v == lookup(doc, key)
    IN  IF v.k = "bool" THEN Some(v.b) ELSE None

config_dir(doc) == lookup_raw_str(doc, <<"general", "config-dir">>)

\* every placeholder of s replaced by dir
RECURSIVE Substitute(_, _)
Substitute(s, dir) ==
    IF s = <<>> THEN <<>>
    ELSE IF Head(s) = Placeholder THEN dir \o Substitute(Tail(s), dir)
    ELSE <<Head(s)>> \o Substitute(Tail(s), dir)

\* a string value as the typed lookups hand it out
Expand(doc, s) ==
    IF config_dir(doc).some THEN Substitute(s, config_dir(doc).v) ELSE s

lookup_str(doc, key) ==
    LET raw == lookup_raw_str(doc, key)
    IN  IF raw.some THEN Some(Expand(doc, raw.v)) ELSE None

lookup_str_vec(doc, key) ==
    LET v == lookup(doc, key)
    IN  IF v.k = "list" THEN Some([i \in 1 .. Len(v.l) |-> Expand(doc, v.l[i])]) ELSE None

lookup_path_slice(doc, key) == lookup_str_vec(doc, key)

\* URIs: a host (or none) and a path
NoHost == "-"
Hosts == {"a", "b"}
Uris == [host : Hosts \cup {NoHost}, path : {"/", "/p"}]

lookup_site_bool(doc, uri, key) ==
    IF uri.host = NoHost THEN None
    ELSE lookup_bool(doc, <<"sites", uri.host, key>>)

-----------------------------------------------------------------------------
(* BrowserConfiguration: the derived accessors of src/src/ui.rs *)

Contains(list, s) == \E i \in 1 .. Len(list) : list[i] = s

\* commands.disabled never consulted
command_disabled_never(doc, name) == FALSE

command_disabled(doc, name) ==
    LET disabled == lookup_str_vec(doc, <<"commands", "disabled">>)
    IN  IF disabled.some THEN Contains(disabled.v, name) ELSE FALSE

AliasKey(name) == <<"commands", "aliases">> \o SplitDots(name)

\* the disabled list consulted for the name typed, not for the name it maps to
resolved_command_name_unmapped(doc, name) ==
    LET alias == lookup_str(doc, AliasKey(name))
        command == IF alias.some THEN alias.v ELSE name
    IN  IF command_disabled(doc, name) THEN None ELSE Some(command)

resolved_command_name(doc, name) ==
    LET alias == lookup_str(doc, AliasKey(name))
        command == IF alias.some THEN alias.v ELSE name
    IN  IF command_disabled(doc, command) THEN None ELSE Some(command)

content_filter_path(doc) == lookup_str(doc, <<"general", "content-filter">>)

\* the site option alone, whether or not a content filter is configured
skip_content_filter_site_only(doc, uri) ==
    LET site == lookup_site_bool(doc, uri, "skip-content-filter")
    IN  IF site.some THEN site.v ELSE FALSE

skip_content_filter(doc, uri) ==
    IF content_filter_path(doc).some
    THEN LET site == lookup_site_bool(doc, uri, "skip-content-filter")
         IN  IF site.some THEN site.v ELSE FALSE
    ELSE TRUE

\* the general option consulted before the site's
use_private_browsing_general_first(doc, uri) ==
    LET value == lookup_site_bool(doc, uri, "private-browsing")
        mode == lookup_bool(doc, <<"general", "private-browsing">>)
    IN  IF mode.some THEN mode.v
        ELSE IF value.some THEN value.v
        ELSE FALSE

use_private_browsing(doc, uri) ==
    LET value == lookup_site_bool(doc, uri, "private-browsing")
        mode == lookup_bool(doc, <<"general", "private-browsing">>)
    IN  IF value.some THEN value.v
        ELSE IF mode.some THEN mode.v
        ELSE FALSE

use_plugins(doc, uri) ==
    LET value == lookup_site_bool(doc, uri, "allow-plugins")
        mode == lookup_bool(doc, <<"general", "allow-plugins">>)
    IN  IF value.some THEN value.v
        ELSE IF mode.some THEN mode.v
        ELSE FALSE

-----------------------------------------------------------------------------
(* Command resolution and the script bridge, as the engine uses them *)

\* File extension used by command files
COMMAND_FILE_SUFFIX == <<"l", "u", "a">>

\* <search_path>/<name>.<suffix>
FilePath(dir, name, suffix) == dir \o <<"/">> \o name \o <<".">> \o suffix

\* the name an alias table maps name to, name itself when it maps it to nothing
AliasTarget(aliases, name) ==
    LET v == IF aliases.some THEN lookup(aliases.v, SplitDots(name)) ELSE Absent
    IN  IF v.k = "str" THEN v.s ELSE name

\* the first search path that holds a file for name
FirstMatch(search_paths, name, suffix, existing) ==
    LET hits == {i \in 1 .. Len(search_paths) :
                    FilePath(search_paths[i], name, suffix) \in existing}
    IN  IF hits = {} THEN None
        ELSE Some(FilePath(search_paths[CHOOSE i \in hits : \A j \in hits : i <= j],
                           name, suffix))

\* Command::parse
Command_parse(text, search_paths, disabled, aliases, suffix, existing) ==
    LET name == AliasTarget(aliases, NameOf(text))
        path == FirstMatch(search_paths, name, suffix, existing)
    IN  IF disabled.some /\ Contains(disabled.v, name) THEN None
        ELSE IF path.some THEN Some([path |-> path.v, arguments |-> RestOf(text)])
        ELSE None

\* Command::file: the opened file, absent when it cannot be opened
Command_file(command, existing, locked) ==
    IF command.path \in existing /\ command.path \notin locked
    THEN Some(command.path) ELSE None

\* what a script may do to the command bar through the capability object
FieldTexts == {<<>>, <<"o">>}
NoEffect == [write |-> FALSE]
ScriptEffects == {NoEffect} \cup [write : {TRUE}, window : Windows, text : FieldTexts]

\* the command fields after a script's effect
AfterScript(fields, effect) ==
    IF effect.write THEN [fields EXCEPT ![effect.window] = effect.text] ELSE fields

\* what a completion script may return
CompletionLists == {<<>>, <<<<"x">>, <<"o">>>>}

-----------------------------------------------------------------------------
(* Engine (src/src/lib.rs) *)

command_search_paths(doc) ==
    LET paths == lookup_path_slice(doc, <<"commands", "search-paths">>)
    IN  IF paths.some THEN paths.v ELSE <<>>

command_aliases(doc) ==
    LET v == lookup(doc, <<"commands", "aliases">>)
    IN  IF v = Absent THEN None ELSE Some(v)

commands_disabled(doc) == lookup_path_slice(doc, <<"commands", "disabled">>)

\* the command a text resolves to under the configuration held
Resolve(doc, text, existing) ==
    Command_parse(text, command_search_paths(doc), commands_disabled(doc),
                  command_aliases(doc), COMMAND_FILE_SUFFIX, existing)

\* deepest execute_command activation explored
MaxDepth == 3

NoFrame == [active |-> FALSE]
Idle == [op |-> "none"]

\* CommandOutput { error: None, message: None }
CommandOutput == [error |-> None, message |-> None]

\* the command field of the first window cleared, whichever window asked
ClearCallFirstWindow(window_index) ==
    [op |-> "set_command_field_text", window |-> 0, text |-> <<>>]

\* the capability call execute_command makes after a successful script
ClearCall(window_index) ==
    [op |-> "set_command_field_text", window |-> window_index, text |-> <<>>]

\* the capability calls execute_command makes once the script has returned
CallsAfterScript(result, window_index) ==
    IF result = "err" THEN <<>> ELSE <<ClearCall(window_index)>>

\* ApplicationUI::set_command_field_text, call by call
RECURSIVE ApplyCalls(_, _)
ApplyCalls(fields, calls) ==
    IF calls = <<>> THEN fields
    ELSE ApplyCalls([fields EXCEPT ![Head(calls).window] = Head(calls).text], Tail(calls))

\* commands.default as execute_command reads it
CommandsDefault(doc) == lookup_str(doc, <<"commands", "default">>)

\* the retry without the prefix check
RetryWithDefaultUnguarded(text, default) ==
    default.some

\* whether execute_command goes on with the default command
RetryWithDefault(text, default) ==
    default.some /\ ~StartsWith(text, default.v)

\* the text execute_command calls itself with
DefaultCommandText(default, text) == default \o <<" ">> \o text

\* execute_command is entered from the UI
ExecuteCommand(window_index, text) ==
    /\ pc = "idle"
    /\ pc' = "exec"
    /\ frame' = [active |-> TRUE, window |-> window_index, text |-> text,
                 depth |-> 0, input |-> text, dispatched |-> <<text>>,
                 before |-> commandField, config |-> config]
    /\ last' = Idle
    /\ UNCHANGED <<config, run_config, disk, files, unreadable, commandField>>

\* the record a finished execute_command leaves
Finished(resolved, opened, ran, result, effect, calls, afterScript) ==
    [op |-> "execute_command", window |-> frame.window, input |-> frame.input,
     dispatched |-> frame.dispatched, depth |-> frame.depth,
     resolved |-> resolved, opened |-> opened, ran |-> ran, result |-> result,
     effect |-> effect, calls |-> calls, before |-> frame.before,
     afterScript |-> afterScript, configBefore |-> frame.config,
     output |-> CommandOutput]

\* the command the running activation's text resolves to
Resolved == Resolve(config, frame.text, files)

\* line 99: the text resolves and its file opens
RunsScript == Resolved.some /\ Command_file(Resolved.v, files, unreadable).some

\* line 99: the text resolves and its file does not open
Unopened == Resolved.some /\ ~Command_file(Resolved.v, files, unreadable).some

\* a file that cannot be opened taken for a text that does not resolve
RetriesAlsoUnopened ==
    /\ ~RunsScript
    /\ RetryWithDefault(frame.text, CommandsDefault(config))

\* lines 105-106: the text does not resolve and the default command is tried
Retries == ~Resolved.some /\ RetryWithDefault(frame.text, CommandsDefault(config))

\* lines 105-106: the text does not resolve and the default command is not tried
GivesUp == ~Resolved.some /\ ~RetryWithDefault(frame.text, CommandsDefault(config))

\* lines 97-104: the text resolves, the file opens, the script runs
ExecuteScript ==
    /\ pc = "exec"
    /\ RunsScript
    /\ \E effect \in ScriptEffects, result \in {"ok", "err"} :
          LET left == AfterScript(commandField, effect)
              calls == CallsAfterScript(result, frame.window)
          IN  /\ commandField' = ApplyCalls(left, calls)
              /\ last' = Finished(TRUE, TRUE, TRUE, result, effect, calls, left)
    /\ pc' = "returned"
    /\ frame' = NoFrame
    /\ UNCHANGED <<config, run_config, disk, files, unreadable>>

\* lines 97-99: the text resolves and the file cannot be opened
ExecuteUnopened ==
    /\ pc = "exec"
    /\ Unopened
    /\ last' = Finished(TRUE, FALSE, FALSE, "none", NoEffect, <<>>, commandField)
    /\ pc' = "returned"
    /\ frame' = NoFrame
    /\ UNCHANGED <<config, run_config, disk, files, unreadable, commandField>>

\* lines 105-112: the text does not resolve and the default command is tried
ExecuteRetry ==
    /\ pc = "exec"
    /\ frame.depth < MaxDepth
    /\ Retries
    /\ LET default == CommandsDefault(config)
       IN  /\ frame' = [frame EXCEPT
                          !.text = DefaultCommandText(default.v, frame.text),
                          !.depth = frame.depth + 1,
                          !.dispatched = Append(frame.dispatched,
                                                DefaultCommandText(default.v, frame.text))]
    /\ UNCHANGED <<pc, config, run_config, disk, files, unreadable, commandField, last>>

\* the command field cleared at the end of every call
ExecuteGiveUpClearing ==
    /\ pc = "exec"
    /\ GivesUp
    /\ commandField' = [commandField EXCEPT ![frame.window] = <<>>]
    /\ last' = [op |-> "execute_command", window |-> frame.window, input |-> frame.input,
                dispatched |-> frame.dispatched, depth |-> frame.depth,
                resolved |-> FALSE, opened |-> FALSE, ran |-> FALSE, result |-> "none",
                effect |-> NoEffect, calls |-> <<>>, before |-> frame.before,
                afterScript |-> commandField, configBefore |-> frame.config,
                output |-> CommandOutput]
    /\ pc' = "returned"
    /\ frame' = NoFrame
    /\ UNCHANGED <<config, run_config, disk, files, unreadable>>

\* lines 105-114: the text does not resolve and nothing more is tried
ExecuteGiveUp ==
    /\ pc = "exec"
    /\ GivesUp
    /\ last' = Finished(FALSE, FALSE, FALSE, "none", NoEffect, <<>>, commandField)
    /\ pc' = "returned"
    /\ frame' = NoFrame
    /\ UNCHANGED <<config, run_config, disk, files, unreadable, commandField>>

\* the record a finished completion request leaves
Completed(op, prefix, resolved, opened, call, result, returned, completions, before) ==
    [op |-> op, prefix |-> prefix, resolved |-> resolved, opened |-> opened,
     call |-> call, result |-> result, returned |-> returned,
     completions |-> completions, before |-> before]

\* lines 66-86: fetch_completions
fetch_completions(op, prefix, variant) ==
    LET command == Resolve(config, prefix, files)
    IN  IF command.some /\ Command_file(command.v, files, unreadable).some
        THEN \E effect \in ScriptEffects, result \in {"ok", "err"}, list \in CompletionLists :
                LET call == [file |-> command.v.path, arguments |-> command.v.arguments,
                             prefix |-> prefix, variant |-> variant]
                IN  /\ result = "err" => list = <<>>
                    /\ commandField' = AfterScript(commandField, effect)
                    /\ last' = Completed(op, prefix, TRUE, TRUE, Some(call), result, list,
                                         IF result = "err" THEN <<>> ELSE list,
                                         commandField)
        ELSE /\ commandField' = commandField
             /\ last' = Completed(op, prefix, command.some, FALSE, None, "none", <<>>,
                                  <<>>, commandField)

\* the completion variant each entry point passes on
CommandVariant == "Command"
AddressVariantAsCommand == "Command"
AddressVariant == "Address"

command_completions(prefix) ==
    /\ pc = "idle"
    /\ fetch_completions("command_completions", prefix, CommandVariant)
    /\ pc' = "returned"
    /\ UNCHANGED <<config, run_config, disk, files, unreadable, frame>>

address_completions(prefix) ==
    /\ pc = "idle"
    /\ fetch_completions("address_completions", prefix, AddressVariant)
    /\ pc' = "returned"
    /\ UNCHANGED <<config, run_config, disk, files, unreadable, frame>>

\* what a call of unimplemented!() does to the dispatch thread
Unimplemented == "panicked"

update_address(window_index, webview_index, text) ==
    /\ pc = "idle"
    /\ pc' = Unimplemented
    /\ last' = [op |-> "update_address", window |-> window_index, text |-> text,
                returned |-> FALSE]
    /\ UNCHANGED <<config, run_config, disk, files, unreadable, commandField, frame>>

close ==
    /\ pc = "idle"
    /\ pc' = Unimplemented
    /\ last' = [op |-> "close", returned |-> FALSE]
    /\ UNCHANGED <<config, run_config, disk, files, unreadable, commandField, frame>>

\* a handler hands control back to the UI's event loop
Return ==
    /\ pc = "returned"
    /\ pc' = "idle"
    /\ last' = Idle
    /\ UNCHANGED <<config, run_config, disk, files, unreadable, commandField, frame>>

-----------------------------------------------------------------------------
(* Configuration lifecycle *)

Paths == {"p", "q"}
Missing == [k |-> "missing"]
Garbage == [k |-> "garbage"]

\* Config::parse_file: the document a file holds, absent when it cannot be
\* read or does not parse
Config_parse_file(store, path) ==
    IF store[path].k = "table" THEN Some(store[path]) ELSE None

\* Config::load: the document held after loading path, and whether it loaded
Config_load(held, store, path) ==
    LET update == Config_parse_file(store, path)
    IN  IF update.some THEN [value |-> update.v, ok |-> TRUE]
        ELSE [value |-> held, ok |-> FALSE]

NoRunConfig == [path |-> "-"]

\* an engine built whatever the file holds, with no document when it does
\* not parse
Engine_new_always(runtime) ==
    /\ pc = "unbuilt"
    /\ LET parsed == Config_parse_file(disk, runtime.path)
       IN  /\ pc' = "returned"
           /\ config' = IF parsed.some THEN parsed.v ELSE Absent
           /\ run_config' = runtime
    /\ last' = [op |-> "new", runtime |-> runtime,
                content |-> disk[runtime.path]]
    /\ UNCHANGED <<disk, files, unreadable, commandField, frame>>

\* lines 31-40: Engine::new
Engine_new(runtime) ==
    /\ pc = "unbuilt"
    /\ LET parsed == Config_parse_file(disk, runtime.path)
       IN  IF parsed.some
           THEN /\ pc' = "returned"
                /\ config' = parsed.v
                /\ run_config' = runtime
           ELSE /\ pc' = "failed"
                /\ UNCHANGED <<config, run_config>>
    /\ last' = [op |-> "new", runtime |-> runtime,
                content |-> disk[runtime.path]]
    /\ UNCHANGED <<disk, files, unreadable, commandField, frame>>

\* the default configuration path, whatever path the engine was built with
ReloadDefaultPath == "p"

\* the path reload reads
ReloadPath == run_config.path

\* lines 42-45: Engine::reload
reload ==
    /\ pc = "idle"
    /\ LET loaded == Config_load(config, disk, ReloadPath)
       IN  /\ config' = loaded.value
           /\ last' = [op |-> "reload", result |-> loaded.ok, configBefore |-> config,
                       runtime |-> run_config, diskBefore |-> disk]
    /\ pc' = "returned"
    /\ UNCHANGED <<run_config, disk, files, unreadable, commandField, frame>>

\* the configuration file at a path is rewritten, removed or damaged
WriteFile(path, content) ==
    /\ pc \in {"idle", "unbuilt"}
    /\ disk[path] # content
    /\ disk' = [disk EXCEPT ![path] = content]
    /\ UNCHANGED <<pc, config, run_config, files, unreadable, commandField, frame, last>>

-----------------------------------------------------------------------------
(* The accessors applied to the configuration held *)

ResolvedCommandName(name) ==
    /\ pc = "idle"
    /\ last' = [op |-> "resolved_command_name", name |-> name,
                result |-> resolved_command_name(config, name)]
    /\ pc' = "returned"
    /\ UNCHANGED <<config, run_config, disk, files, unreadable, commandField, frame>>

ParseCommand(text) ==
    /\ pc = "idle"
    /\ last' = [op |-> "parse", text |-> text, result |-> Resolve(config, text, files)]
    /\ pc' = "returned"
    /\ UNCHANGED <<config, run_config, disk, files, unreadable, commandField, frame>>

UsePrivateBrowsing(uri) ==
    /\ pc = "idle"
    /\ last' = [op |-> "use_private_browsing", uri |-> uri,
                result |-> use_private_browsing(config, uri)]
    /\ pc' = "returned"
    /\ UNCHANGED <<config, run_config, disk, files, unreadable, commandField, frame>>

UsePlugins(uri) ==
    /\ pc = "idle"
    /\ last' = [op |-> "use_plugins", uri |-> uri, result |-> use_plugins(config, uri)]
    /\ pc' = "returned"
    /\ UNCHANGED <<config, run_config, disk, files, unreadable, commandField, frame>>

SkipContentFilter(uri) ==
    /\ pc = "idle"
    /\ last' = [op |-> "skip_content_filter", uri |-> uri,
                result |-> skip_content_filter(config, uri)]
    /\ pc' = "returned"
    /\ UNCHANGED <<config, run_config, disk, files, unreadable, commandField, frame>>

-----------------------------------------------------------------------------
(* Configurations and file systems explored *)

Doc(commands, general, sites) ==
    Tbl({<<"commands", commands>>, <<"general", general>>, <<"sites", sites>>})

Commands(aliases, disabled, default, paths) ==
    Tbl({<<"aliases", aliases>>, <<"disabled", disabled>>, <<"default", default>>,
         <<"search-paths", paths>>})

General(dir, filter, private, plugins) ==
    Tbl({<<"config-dir", dir>>, <<"content-filter", filter>>,
         <<"private-browsing", private>>, <<"allow-plugins", plugins>>})

Site(private, plugins, skip) ==
    Tbl({<<"private-browsing", private>>, <<"allow-plugins", plugins>>,
         <<"skip-content-filter", skip>>})

File(dir, name) == FilePath(dir, name, COMMAND_FILE_SUFFIX)

FileSystems ==
    { [files |-> {File(<<"d">>, <<"o">>), File(<<"e">>, <<"o">>), File(<<"e">>, <<"x">>)},
       unreadable |-> {}],
      [files |-> {File(<<"d">>, <<"o">>), File(<<"d">>, <<"x">>), File(<<"e">>, <<"o">>)},
       unreadable |-> {File(<<"e">>, <<"o">>)}] }

DispatchDocs ==
    { Doc(Commands(aliases, disabled, default, VList(<<<<"e">>, <<"d">>>>)), Absent, Absent) :
        aliases \in {Absent, Tbl({<<<<"x">>, VStr(<<"o">>)>>})},
        disabled \in {Absent, VList(<<<<"o">>>>)},
        default \in {Absent, VStr(<<"o">>), VStr(<<"x">>), VStr(<<>>)} }
    \cup { Doc(Commands(Absent, Absent, default, paths), Absent, Absent) :
             default \in {Absent, VStr(<<"o">>)},
             paths \in {Absent, VList(<<>>)} }
    \cup { Doc(Commands(Absent, Absent, VBool(TRUE), VList(<<<<"d">>>>)), Absent, Absent),
           Doc(Commands(Absent, VList(<<<<Placeholder>>>>), VStr(<<Placeholder>>),
                        VList(<<<<"d">>>>)),
               General(VStr(<<"o">>), Absent, Absent, Absent), Absent) }

InitDispatch ==
    /\ pc = "idle"
    /\ config \in DispatchDocs
    /\ run_config = [path |-> "p"]
    /\ disk = [path \in Paths |-> IF path = "p" THEN config ELSE Missing]
    /\ \E fs \in FileSystems : files = fs.files /\ unreadable = fs.unreadable
    /\ commandField \in [Windows -> FieldTexts]
    /\ frame = NoFrame
    /\ last = Idle

Next ==
    \/ \E w \in Windows, text \in Texts : ExecuteCommand(w, text)
    \/ ExecuteScript
    \/ ExecuteUnopened
    \/ ExecuteRetry
    \/ ExecuteGiveUp
    \/ \E prefix \in Texts : command_completions(prefix)
    \/ \E prefix \in Texts : address_completions(prefix)
    \/ \E w \in Windows, text \in FieldTexts : update_address(w, 0, text)
    \/ close
    \/ Return

Spec == InitDispatch /\ [][Next]_vars

\* documents that differ in what they say of commands
CommandDocs ==
    { Doc(Commands(aliases, disabled, Absent, VList(<<<<"e">>, <<"d">>>>)),
          General(dir, Absent, Absent, Absent), Absent) :
        aliases \in {Absent,
                     Tbl({<<<<"o">>, VStr(<<"x">>)>>}),
                     Tbl({<<<<"x">>, VStr(<<"o">>)>>, <<<<"o">>, VStr(<<Placeholder>>)>>}),
                     Tbl({<<<<"o">>, Tbl({<<<<"x">>, VStr(<<"o">>)>>})>>}),
                     VStr(<<"o">>)},
        disabled \in {Absent, VList(<<<<"x">>>>), VList(<<<<"o">>, <<Placeholder>>>>),
                      VStr(<<"x">>)},
        dir \in {Absent, VStr(<<"x">>)} }

Flags == {Absent, VBool(TRUE), VBool(FALSE)}

\* documents that differ in what they say of sites
SiteDocs ==
    { Doc(Absent, General(Absent, filter, private, plugins),
          Tbl({<<"a", Site(sitePrivate, sitePlugins, siteSkip)>>})) :
        filter \in {Absent, VStr(<<"f">>), VBool(TRUE)},
        private \in Flags \cup {VStr(<<"o">>)},
        plugins \in Flags,
        sitePrivate \in Flags, sitePlugins \in Flags,
        siteSkip \in Flags \cup {VStr(<<"o">>)} }

InitConfig ==
    /\ pc = "idle"
    /\ \/ /\ config \in CommandDocs
          /\ \E fs \in FileSystems : files = fs.files /\ unreadable = fs.unreadable
       \/ /\ config \in SiteDocs
          /\ files = {}
          /\ unreadable = {}
    /\ run_config = [path |-> "p"]
    /\ disk = [path \in Paths |-> IF path = "p" THEN config ELSE Missing]
    /\ commandField = [w \in Windows |-> <<>>]
    /\ frame = NoFrame
    /\ last = Idle

NextConfig ==
    \/ \E name \in Names : ResolvedCommandName(name)
    \/ \E text \in Texts \cup Names : ParseCommand(text)
    \/ \E uri \in Uris : UsePrivateBrowsing(uri)
    \/ \E uri \in Uris : UsePlugins(uri)
    \/ \E uri \in Uris : SkipContentFilter(uri)
    \/ Return

SpecConfig == InitConfig /\ [][NextConfig]_vars

\* what a configuration file may hold
LifecycleDocs ==
    { Doc(Commands(Absent, Absent, default, Absent), Absent, Absent) :
        default \in {Absent, VStr(<<"o">>), VStr(<<"x">>)} }

Contents == LifecycleDocs \cup {Missing, Garbage}

InitLifecycle ==
    /\ pc = "unbuilt"
    /\ config = Absent
    /\ run_config = NoRunConfig
    /\ disk \in [Paths -> Contents]
    /\ files = {}
    /\ unreadable = {}
    /\ commandField = [w \in Windows |-> <<>>]
    /\ frame = NoFrame
    /\ last = Idle

NextLifecycle ==
    \/ \E runtime \in [path : Paths] : Engine_new(runtime)
    \/ reload
    \/ \E path \in Paths, content \in Contents : WriteFile(path, content)
    \/ Return

SpecLifecycle == InitLifecycle /\ [][NextLifecycle]_vars

-----------------------------------------------------------------------------
(* Properties *)

\* some step of the running execute_command activation can be taken
CanStep == RunsScript \/ Unopened \/ (Retries /\ frame.depth < MaxDepth) \/ GivesUp

\* C1: the default-command fallback never loops.  A call of execute_command
\* is at most two activations deep: the activation entered by the retry
\* begins with the default command and is not retried again, every
\* activation can finish or hand over, and a finished call dispatched the
\* input and at most one more text, "<default> <input>", and that one only
\* when the input did not begin with the default.
C1_FallbackNeverLoops ==
    /\ pc = "exec" =>
          /\ frame.depth <= 1
          /\ Len(frame.dispatched) = frame.depth + 1
          /\ CanStep
          /\ frame.depth = 1 =>
                /\ CommandsDefault(config).some
                /\ StartsWith(frame.text, CommandsDefault(config).v)
                /\ ~Retries
    /\ (pc = "returned" /\ last.op = "execute_command") =>
          /\ Len(last.dispatched) \in {1, 2}
          /\ last.dispatched[1] = last.input
          /\ Len(last.dispatched) = 2 =>
                /\ CommandsDefault(config).some
                /\ ~StartsWith(last.input, CommandsDefault(config).v)
                /\ last.dispatched[2] =
                      CommandsDefault(config).v \o <<" ">> \o last.input
          /\ (CommandsDefault(config).some
                /\ StartsWith(last.input, CommandsDefault(config).v)) =>
                last.dispatched = <<last.input>>

\* C1 witness: a call that was retried once with the default command, failed
\* to resolve again and ended there
C1_Witness ==
    /\ pc = "returned"
    /\ last.op = "execute_command"
    /\ ~last.resolved
    /\ Len(last.dispatched) = 2
    /\ StartsWith(last.dispatched[2], <<"o", " ">>)

\* the names commands.disabled lists
DisabledNames(doc) ==
    LET v == lookup(doc, <<"commands", "disabled">>)
    IN  IF v.k = "list" THEN {Expand(doc, v.l[i]) : i \in 1 .. Len(v.l)} ELSE {}

\* the entry commands.aliases.<name>
AliasEntry(doc, name) == lookup(doc, <<"commands", "aliases">> \o SplitDots(name))

\* C2: resolved_command_name(name) is commands.aliases.<name> when that alias
\* exists and name itself otherwise, and it is absent exactly when that name
\* is listed in commands.disabled; a text whose first token aliases to a
\* disabled command resolves to no command, whatever files the search paths
\* hold.
C2_AliasThenDisabled ==
    /\ (pc = "returned" /\ last.op = "resolved_command_name") =>
          LET entry == AliasEntry(config, last.name)
              mapped == IF entry.k = "str" THEN Expand(config, entry.s) ELSE last.name
          IN  /\ (last.result = None) <=> (mapped \in DisabledNames(config))
              /\ last.result.some => last.result.v = mapped
    /\ (pc = "returned" /\ last.op = "parse") =>
          LET entry == AliasEntry(config, NameOf(last.text))
          IN  (entry.k = "str" /\ entry.s \in DisabledNames(config)) =>
                 last.result = None

\* C2 witness: a name that is not disabled itself and whose alias is
C2_Witness ==
    /\ pc = "returned"
    /\ last.op = "resolved_command_name"
    /\ AliasEntry(config, last.name).k = "str"
    /\ last.name \notin DisabledNames(config)
    /\ last.result = None

\* C3 as claimed: every name listed in commands.disabled resolves to absent,
\* whatever the alias table holds
C3_DisabledNameNeverResolves ==
    (pc = "returned" /\ last.op = "resolved_command_name"
        /\ last.name \in DisabledNames(config)) =>
       last.result = None

\* C3 amended: resolved_command_name never returns a name listed in
\* commands.disabled, and a listed name that has no alias resolves to absent
\* (a listed name with an alias resolves as its alias does)
C3_NeverResolvesToDisabled ==
    (pc = "returned" /\ last.op = "resolved_command_name") =>
       /\ last.result.some => last.result.v \notin DisabledNames(config)
       /\ (last.name \in DisabledNames(config)
             /\ AliasEntry(config, last.name).k # "str") => last.result = None
       /\ (last.name \in DisabledNames(config)
             /\ AliasEntry(config, last.name).k = "str"
             /\ Expand(config, AliasEntry(config, last.name).s)
                   \notin DisabledNames(config)) =>
             last.result = Some(Expand(config, AliasEntry(config, last.name).s))

\* C3 witness: a disabled name without an alias was looked up
C3_Witness ==
    /\ pc = "returned"
    /\ last.op = "resolved_command_name"
    /\ last.name \in DisabledNames(config)
    /\ AliasEntry(config, last.name).k # "str"
    /\ last.result = None

\* the boolean a path of the document holds, if it holds one
FlagAt(doc, path) == lookup(doc, path)

\* C4: use_private_browsing and use_plugins return the site's value when the
\* URI's host has one, else the general value when there is one, else false
C4_SiteThenGeneralThenFalse ==
    (pc = "returned" /\ last.op \in {"use_private_browsing", "use_plugins"}) =>
       LET key == IF last.op = "use_private_browsing"
                  THEN "private-browsing" ELSE "allow-plugins"
           site == IF last.uri.host = NoHost THEN Absent
                   ELSE FlagAt(config, <<"sites", last.uri.host, key>>)
           general == FlagAt(config, <<"general", key>>)
       IN  last.result = IF site.k = "bool" THEN site.b
                         ELSE IF general.k = "bool" THEN general.b
                         ELSE FALSE

\* C4 witness: the site's value and the general value disagree
C4_Witness ==
    /\ pc = "returned"
    /\ last.op = "use_private_browsing"
    /\ last.uri.host = "a"
    /\ FlagAt(config, <<"sites", "a", "private-browsing">>) = VBool(FALSE)
    /\ FlagAt(config, <<"general", "private-browsing">>) = VBool(TRUE)
    /\ last.result = FALSE

\* C5 as claimed: skip_content_filter returns the site's value when there is
\* one and false otherwise, in every configuration
C5_SiteValueOrFalse ==
    (pc = "returned" /\ last.op = "skip_content_filter") =>
       LET site == IF last.uri.host = NoHost THEN Absent
                   ELSE FlagAt(config, <<"sites", last.uri.host, "skip-content-filter">>)
       IN  last.result = IF site.k = "bool" THEN site.b ELSE FALSE

\* C5 amended: when general.content-filter is set, skip_content_filter
\* returns the site's value when there is one and false otherwise; when it
\* is not set, skip_content_filter returns true whatever the site says
C5_SiteValueUnderFilter ==
    (pc = "returned" /\ last.op = "skip_content_filter") =>
       LET site == IF last.uri.host = NoHost THEN Absent
                   ELSE FlagAt(config, <<"sites", last.uri.host, "skip-content-filter">>)
           filter == FlagAt(config, <<"general", "content-filter">>)
       IN  last.result = IF filter.k # "str" THEN TRUE
                         ELSE IF site.k = "bool" THEN site.b
                         ELSE FALSE

\* C5 witness: a content filter is set and the site asks to skip it
C5_Witness ==
    /\ pc = "returned"
    /\ last.op = "skip_content_filter"
    /\ FlagAt(config, <<"general", "content-filter">>).k = "str"
    /\ last.uri.host = "a"
    /\ FlagAt(config, <<"sites", "a", "skip-content-filter">>) = VBool(TRUE)
    /\ last.result = TRUE

\* C6 as claimed: after a script returned an error the command field of
\* every window is as it was when execute_command was called, and a field is
\* emptied during the call only for the window passed in and only after a
\* script returned success
C6_FieldsAsBeforeUnlessSuccess ==
    (pc = "returned" /\ last.op = "execute_command") =>
       /\ last.result = "err" => commandField = last.before
       /\ \A w \in Windows :
             (commandField[w] = <<>> /\ last.before[w] # <<>>) =>
                (last.result = "ok" /\ w = last.window)

\* C6 amended: execute_command itself calls set_command_field_text only
\* after a script was executed and returned success, once, for the window
\* passed in and with the empty text, also when the script ran through the
\* default-command retry; when the script returned an error, or none ran, it
\* makes no capability call, and every command field is as the script left
\* it (as it was before the call where the script did not write it)
C6_EngineClearsOnlyOnSuccess ==
    (pc = "returned" /\ last.op = "execute_command") =>
       LET left == IF last.ran /\ last.effect.write
                   THEN [last.before EXCEPT ![last.effect.window] = last.effect.text]
                   ELSE last.before
           cleared == last.ran /\ last.result = "ok"
       IN  /\ last.calls = IF cleared
                           THEN <<[op |-> "set_command_field_text",
                                   window |-> last.window, text |-> <<>>]>>
                           ELSE <<>>
           /\ \A w \in Windows :
                 commandField[w] = IF cleared /\ w = last.window THEN <<>> ELSE left[w]
           /\ last.ran <=> last.result \in {"ok", "err"}

\* C6 witness: the script ran through the default-command retry for window
\* 1, whose field held a text, and returned success
C6_Witness ==
    /\ pc = "returned"
    /\ last.op = "execute_command"
    /\ Len(last.dispatched) = 2
    /\ last.result = "ok"
    /\ last.window = 1
    /\ last.before[1] = <<"o">>
    /\ last.before[0] = <<"o">>
    /\ commandField[1] = <<>>
    /\ commandField[0] = <<"o">>

\* whether a text resolves to a command under the configuration held
Resolves(text) == Resolve(config, text, files).some

\* C7: when the text does not resolve and either no commands.default is
\* configured or the retry with the default also fails to resolve,
\* execute_command is a no-op: no script is executed, no capability call is
\* made, the command fields and the configuration are as before; with no
\* search paths and no default no text has an effect.
C7_UnresolvedIsNoOp ==
    (pc = "returned" /\ last.op = "execute_command") =>
       LET default == CommandsDefault(config)
           retried == default.some /\ ~StartsWith(last.input, default.v)
           fails == /\ ~Resolves(last.input)
                    /\ \/ ~default.some
                       \/ retried /\ ~Resolves(default.v \o <<" ">> \o last.input)
           bare == command_search_paths(config) = <<>> /\ ~default.some
       IN  /\ (fails \/ bare) =>
                 /\ ~last.ran
                 /\ last.calls = <<>>
                 /\ commandField = last.before
                 /\ config = last.configBefore
                 /\ last.output = [error |-> None, message |-> None]
           /\ ~last.resolved => commandField = last.before

\* C7 witness: a text was submitted with no search paths and no default
\* configured, from a window whose field held a text
C7_Witness ==
    /\ pc = "returned"
    /\ last.op = "execute_command"
    /\ command_search_paths(config) = <<>>
    /\ ~CommandsDefault(config).some
    /\ last.input = <<"x", "x", "x">>
    /\ ~last.resolved
    /\ commandField[last.window] = <<"o">>

\* the configuration keys a reader may ask for
ObservedKeys == {<<"commands", "default">>, <<"commands", "disabled">>, <<"general">>}

\* C8: reload is all-or-nothing.  A reload reads the file at the path the
\* engine was built with; when that file parses, reload reports success and
\* the engine holds exactly the parsed document; when it does not, reload
\* reports failure, the engine holds the document it held before and every
\* lookup yields what it yielded before; the run configuration never changes
\* once the engine is built.
C8_ReloadAllOrNothing ==
    /\ [](  (pc = "returned" /\ last.op = "reload") =>
               LET content == last.diskBefore[last.runtime.path]
               IN  /\ run_config = last.runtime
                   /\ last.result <=> content.k = "table"
                   /\ last.result => config = content
                   /\ ~last.result =>
                         /\ config = last.configBefore
                         /\ \A key \in ObservedKeys :
                               lookup(config, key) = lookup(last.configBefore, key)
                   /\ config.k = "table" )
    /\ [][pc \notin {"unbuilt", "failed"} => run_config' = run_config]_vars

\* C8 witness: a reload failed while the engine held a document
C8_Witness ==
    /\ pc = "returned"
    /\ last.op = "reload"
    /\ ~last.result
    /\ disk[run_config.path] = Garbage
    /\ run_config.path = "q"
    /\ CommandsDefault(config) = Some(<<"x">>)

\* C9: command_completions and address_completions return the empty list
\* when the prefix does not resolve, when the command's file cannot be
\* opened and when the completion script fails; they return the script's
\* list when it succeeds; they never end the dispatch thread and never try
\* commands.default; the script is called with Command by the one and with
\* Address by the other, and with the same file, arguments and prefix.
C9_CompletionsSwallowFailure ==
    (last.op \in {"command_completions", "address_completions"}) =>
       LET command == Resolve(config, last.prefix, files)
           usable == command.some /\ command.v.path \notin unreadable
       IN  /\ pc = "returned"
           /\ last.call.some <=> usable
           /\ usable =>
                 last.call.v = [file |-> command.v.path,
                                arguments |-> RestOf(last.prefix),
                                prefix |-> last.prefix,
                                variant |-> IF last.op = "command_completions"
                                            THEN "Command" ELSE "Address"]
           /\ last.completions = IF usable /\ last.result = "ok"
                                 THEN last.returned ELSE <<>>
           /\ ~usable => commandField = last.before

\* C9 witness: a prefix that does not resolve while the default command
\* would, and the completions are empty
C9_Witness ==
    /\ pc = "returned"
    /\ last.op = "address_completions"
    /\ ~Resolves(last.prefix)
    /\ CommandsDefault(config).some
    /\ Resolves(CommandsDefault(config).v \o <<" ">> \o last.prefix)
    /\ last.completions = <<>>

\* C10: update_address and close return to their caller with a result that
\* says "not yet supported"; neither ends the dispatch thread
C10_StubsReturn ==
    (last.op \in {"update_address", "close"}) =>
       /\ pc # "panicked"
       /\ last.returned


\* C11: Engine::new produces an engine if and only if the file at the run
\* configuration's path parses.  When it does not parse, no engine is
\* produced: nothing holds a document or a run configuration.  When it
\* parses, the engine holds exactly the document of that file and the run
\* configuration it was given.  An engine always holds a parsed document.
C11_EngineIffParses ==
    /\ (last.op = "new") =>
          LET content == disk[last.runtime.path]
          IN  /\ pc \in {"returned", "failed"}
              /\ content = last.content
              /\ pc = "returned" <=> content.k = "table"
              /\ pc = "returned" =>
                    /\ config = content
                    /\ run_config = last.runtime
              /\ pc = "failed" =>
                    /\ config = Absent
                    /\ run_config = NoRunConfig
    /\ pc = "unbuilt" => (config = Absent /\ run_config = NoRunConfig)
    /\ pc \in {"idle", "returned"} => config.k = "table"

\* C11 witness: construction was asked for path q, whose file does not
\* parse, while the file at the other path does; no engine was produced
C11_Witness ==
    /\ pc = "failed"
    /\ last.op = "new"
    /\ last.runtime = [path |-> "q"]
    /\ disk["q"] = Garbage
    /\ disk["p"].k = "table"
    /\ config = Absent


\* whether commands.default holds a string to fall back on
DefaultConfigured == lookup(config, <<"commands", "default">>).k = "str"

\* the three conditions under which a text is retried with the default
ShouldRetry(text) ==
    /\ ~Resolves(text)
    /\ DefaultConfigured
    /\ ~StartsWith(text, CommandsDefault(config).v)

\* whether a text resolves to a command whose file cannot be opened
ResolvesUnopened(text) ==
    /\ Resolves(text)
    /\ Resolve(config, text, files).v.path \in unreadable

\* C12: execute_command retries with the default command exactly when the
\* text did not resolve, commands.default is configured and the text does
\* not begin with the default; the text it retries with is the default, one
\* space, then the original text unchanged, and nothing else is ever
\* dispatched.  A text that resolves to a command whose file cannot be
\* opened is not retried with the default, runs no script and clears no
\* command field.
C12_RetryExactlyOnResolutionFailure ==
    /\ pc = "exec" =>
          /\ Retries <=> ShouldRetry(frame.text)
          /\ ResolvesUnopened(frame.text) => (Unopened /\ ~Retries /\ ~RunsScript)
          /\ frame.depth >= 1 =>
                frame.text = CommandsDefault(config).v \o <<" ">> \o frame.input
    /\ (pc = "returned" /\ last.op = "execute_command") =>
          LET final == last.dispatched[Len(last.dispatched)]
          IN  /\ last.dispatched =
                    IF ShouldRetry(last.input)
                    THEN <<last.input,
                           CommandsDefault(config).v \o <<" ">> \o last.input>>
                    ELSE <<last.input>>
              /\ ResolvesUnopened(final) =>
                    /\ last.resolved
                    /\ ~last.opened
                    /\ ~last.ran
                    /\ last.result = "none"
                    /\ last.calls = <<>>
                    /\ commandField = last.before

\* C12 witness: a text resolved to a command whose file could not be opened
\* while the default command would have run; it was not retried and the
\* field of its window, which held a text, was not cleared
C12_Witness ==
    /\ pc = "returned"
    /\ last.op = "execute_command"
    /\ last.resolved
    /\ ~last.opened
    /\ DefaultConfigured
    /\ ~StartsWith(last.input, CommandsDefault(config).v)
    /\ Resolves(CommandsDefault(config).v \o <<" ">> \o last.input)
    /\ ~ResolvesUnopened(CommandsDefault(config).v \o <<" ">> \o last.input)
    /\ last.dispatched = <<last.input>>
    /\ commandField[last.window] = <<"o">>

====
